---- MODULE Spec2Model ----
(***************************************************************************)
(* Model of src/game_window_glfw.rs: the GLFW back-end of piston's         *)
(* GameWindow.  The state is the GameWindowGLFW struct (window flags,      *)
(* the raw event Receiver, settings, event_queue, last_mouse_pos) plus     *)
(* the native input not yet pumped.  Every public operation is one         *)
(* action; poll_event includes the whole of flush_messages.                *)
(*                                                                         *)
(* Encoding.  Option<T>: None is <<>>, Some(v) is <<v>> (for the cursor    *)
(* position Some((x, y)) is <<x, y>>).  A glfw::WindowEvent is a tuple     *)
(* whose head is the variant name; the timestamp, scancode and modifier    *)
(* fields are bound to `_` by every pattern of flush_messages and are not  *)
(* carried.  An input::InputEvent is a tuple whose head is Press, Release, *)
(* Text or Move.  A char is its code point, a String the sequence of its   *)
(* code points.  Cursor and scroll coordinates are f64 in the source; the  *)
(* model draws them from small integers, on which f64 subtraction is       *)
(* exact.                                                                  *)
(***************************************************************************)
EXTENDS Integers, Sequences, FiniteSets, TLC

(* ---- bounds ---- *)
\* native records + buffered events that may be outstanding at once
MaxInFlight == 2

\* raw records a user who stops typing produces in all
MaxArrivals == 2

(* ---- glfw::Key -> keyboard::Key, the arms of glfw_map_key in order ---- *)
KeyTable == <<
    <<"Key0", "D0">>, <<"Key1", "D1">>, <<"Key2", "D2">>,
    <<"Key3", "D3">>, <<"Key4", "D4">>, <<"Key5", "D5">>,
    <<"Key6", "D6">>, <<"Key7", "D7">>, <<"Key8", "D8">>,
    <<"Key9", "D9">>, <<"KeyA", "A">>, <<"KeyB", "B">>,
    <<"KeyC", "C">>, <<"KeyD", "D">>, <<"KeyE", "E">>,
    <<"KeyF", "F">>, <<"KeyG", "G">>, <<"KeyH", "H">>,
    <<"KeyI", "I">>, <<"KeyJ", "J">>, <<"KeyK", "K">>,
    <<"KeyL", "L">>, <<"KeyM", "M">>, <<"KeyN", "N">>,
    <<"KeyO", "O">>, <<"KeyP", "P">>, <<"KeyQ", "Q">>,
    <<"KeyR", "R">>, <<"KeyS", "S">>, <<"KeyT", "T">>,
    <<"KeyU", "U">>, <<"KeyV", "V">>, <<"KeyW", "W">>,
    <<"KeyX", "X">>, <<"KeyY", "Y">>, <<"KeyZ", "Z">>,
    <<"KeyApostrophe", "Unknown">>, <<"KeyBackslash", "Backslash">>, <<"KeyBackspace", "Backspace">>,
    <<"KeyCapsLock", "CapsLock">>, <<"KeyDelete", "Delete">>, <<"KeyComma", "Comma">>,
    <<"KeyDown", "Down">>, <<"KeyEnd", "End">>, <<"KeyEnter", "Return">>,
    <<"KeyEqual", "Equals">>, <<"KeyEscape", "Escape">>, <<"KeyF1", "F1">>,
    <<"KeyF2", "F2">>, <<"KeyF3", "F3">>, <<"KeyF4", "F4">>,
    <<"KeyF5", "F5">>, <<"KeyF6", "F6">>, <<"KeyF7", "F7">>,
    <<"KeyF8", "F8">>, <<"KeyF9", "F9">>, <<"KeyF10", "F10">>,
    <<"KeyF11", "F11">>, <<"KeyF12", "F12">>, <<"KeyF13", "F13">>,
    <<"KeyF14", "F14">>, <<"KeyF15", "F15">>, <<"KeyF16", "F16">>,
    <<"KeyF17", "F17">>, <<"KeyF18", "F18">>, <<"KeyF19", "F19">>,
    <<"KeyF20", "F20">>, <<"KeyF21", "F21">>, <<"KeyF22", "F22">>,
    <<"KeyF23", "F23">>, <<"KeyF24", "F24">>, <<"KeyF25", "Unknown">>,
    <<"KeyKp0", "NumPad0">>, <<"KeyKp1", "NumPad1">>, <<"KeyKp2", "NumPad2">>,
    <<"KeyKp3", "NumPad3">>, <<"KeyKp4", "NumPad4">>, <<"KeyKp5", "NumPad5">>,
    <<"KeyKp6", "NumPad6">>, <<"KeyKp7", "NumPad7">>, <<"KeyKp8", "NumPad8">>,
    <<"KeyKp9", "NumPad9">>, <<"KeyKpDecimal", "NumPadDecimal">>, <<"KeyKpDivide", "NumPadDivide">>,
    <<"KeyKpMultiply", "NumPadMultiply">>, <<"KeyKpSubtract", "NumPadMinus">>, <<"KeyKpAdd", "NumPadPlus">>,
    <<"KeyKpEnter", "NumPadEnter">>, <<"KeyKpEqual", "NumPadEquals">>, <<"KeyLeftShift", "LShift">>,
    <<"KeyLeftControl", "LCtrl">>, <<"KeyLeftAlt", "LAlt">>, <<"KeyLeftSuper", "LGui">>,
    <<"KeyRightShift", "RShift">>, <<"KeyRightControl", "RCtrl">>, <<"KeyRightAlt", "RAlt">>,
    <<"KeyRightSuper", "RGui">>, <<"KeyGraveAccent", "Unknown">>, <<"KeyHome", "Home">>,
    <<"KeyInsert", "Insert">>, <<"KeyLeft", "Left">>, <<"KeyLeftBracket", "LeftBracket">>,
    <<"KeyMenu", "Menu">>, <<"KeyMinus", "Minus">>, <<"KeyNumLock", "NumLockClear">>,
    <<"KeyPageDown", "PageDown">>, <<"KeyPageUp", "PageUp">>, <<"KeyPause", "Pause">>,
    <<"KeyPeriod", "Period">>, <<"KeyPrintScreen", "PrintScreen">>, <<"KeyRight", "Right">>,
    <<"KeyRightBracket", "RightBracket">>, <<"KeyScrollLock", "ScrollLock">>, <<"KeySemicolon", "Semicolon">>,
    <<"KeySlash", "Slash">>, <<"KeySpace", "Space">>, <<"KeyTab", "Tab">>,
    <<"KeyUp", "Up">>, <<"KeyWorld1", "Unknown">>, <<"KeyWorld2", "Unknown">>
>>

MouseTable == <<
    <<"MouseButton1", "Left">>, <<"MouseButton2", "Right">>,
    <<"MouseButton3", "Middle">>, <<"MouseButton4", "X1">>,
    <<"MouseButton5", "X2">>, <<"MouseButton6", "Button6">>,
    <<"MouseButton7", "Button7">>, <<"MouseButton8", "Button8">>
>>

\* first arm of a match table whose pattern is `code`
FirstArm(table, code) ==
    table[CHOOSE i \in 1..Len(table) :
            /\ table[i][1] = code
            /\ \A j \in 1..(i-1) : table[j][1] # code][2]

\* mutant of glfw_map_key: the world keys have no arm and yield nothing
glfw_map_key_without_world(keycode) ==
    IF keycode \in {"KeyWorld1", "KeyWorld2"} THEN ""
    ELSE FirstArm(KeyTable, keycode)

glfw_map_key(keycode) == FirstArm(KeyTable, keycode)

glfw_map_mouse(mouse_button) == FirstArm(MouseTable, mouse_button)

GlfwKeys == {KeyTable[i][1] : i \in 1..Len(KeyTable)}

GlfwMouseButtons == {MouseTable[i][1] : i \in 1..Len(MouseTable)}

(* ---- the native codes: the variants of glfw::Key and glfw::MouseButton ---- *)
NativeKeys == {
    "KeySpace", "KeyApostrophe", "KeyComma", "KeyMinus", "KeyPeriod", "KeySlash",
    "Key0", "Key1", "Key2", "Key3", "Key4", "Key5",
    "Key6", "Key7", "Key8", "Key9", "KeySemicolon", "KeyEqual",
    "KeyA", "KeyB", "KeyC", "KeyD", "KeyE", "KeyF",
    "KeyG", "KeyH", "KeyI", "KeyJ", "KeyK", "KeyL",
    "KeyM", "KeyN", "KeyO", "KeyP", "KeyQ", "KeyR",
    "KeyS", "KeyT", "KeyU", "KeyV", "KeyW", "KeyX",
    "KeyY", "KeyZ", "KeyLeftBracket", "KeyBackslash", "KeyRightBracket", "KeyGraveAccent",
    "KeyWorld1", "KeyWorld2", "KeyEscape", "KeyEnter", "KeyTab", "KeyBackspace",
    "KeyInsert", "KeyDelete", "KeyRight", "KeyLeft", "KeyDown", "KeyUp",
    "KeyPageUp", "KeyPageDown", "KeyHome", "KeyEnd", "KeyCapsLock", "KeyScrollLock",
    "KeyNumLock", "KeyPrintScreen", "KeyPause", "KeyF1", "KeyF2", "KeyF3",
    "KeyF4", "KeyF5", "KeyF6", "KeyF7", "KeyF8", "KeyF9",
    "KeyF10", "KeyF11", "KeyF12", "KeyF13", "KeyF14", "KeyF15",
    "KeyF16", "KeyF17", "KeyF18", "KeyF19", "KeyF20", "KeyF21",
    "KeyF22", "KeyF23", "KeyF24", "KeyF25", "KeyKp0", "KeyKp1",
    "KeyKp2", "KeyKp3", "KeyKp4", "KeyKp5", "KeyKp6", "KeyKp7",
    "KeyKp8", "KeyKp9", "KeyKpDecimal", "KeyKpDivide", "KeyKpMultiply", "KeyKpSubtract",
    "KeyKpAdd", "KeyKpEnter", "KeyKpEqual", "KeyLeftShift", "KeyLeftControl", "KeyLeftAlt",
    "KeyLeftSuper", "KeyRightShift", "KeyRightControl", "KeyRightAlt", "KeyRightSuper", "KeyMenu"
}

NativeMouseButtons == {
    "MouseButton1", "MouseButton2", "MouseButton3", "MouseButton4",
    "MouseButton5", "MouseButton6", "MouseButton7", "MouseButton8"
}

(* ---- the inputs the model draws ---- *)
Keys == {"KeyEscape", "KeyA"}

Actions == {"Press", "Release", "Repeat"}

Buttons == {"MouseButton1"}

Chars == {97}

CursorPositions == {<<10, 10>>, <<13, 7>>}

ScrollOffsets == {<<0, 1>>}

\* GameWindowSettings.fullscreen values handed to new()
FullscreenFlags == {FALSE}

\* window modes of the window handed to from_pieces()
WindowModes == {"Windowed"}

\* polling the caller of from_pieces() may have switched on beforehand, among
\* the classes from_pieces() does not switch on itself; "other" stands for
\* the classes flush_messages has no arm for (size, focus, ...)
PriorPolling == {{}, {"char", "other"}}

\* what the native layer does when new() asks it for a context and a window
NativeLayerStates == {"ok", "init_fails", "create_window_fails"}

RawRecords ==
    {<<"KeyEvent", k, a>> : k \in Keys, a \in Actions}
    \cup {<<"CharEvent", c>> : c \in Chars}
    \cup {<<"MouseButtonEvent", b, a>> : b \in Buttons, a \in {"Press", "Release"}}
    \cup {<<"CursorPosEvent", p[1], p[2]>> : p \in CursorPositions}
    \cup {<<"ScrollEvent", s[1], s[2]>> : s \in ScrollOffsets}
    \cup {<<"FocusEvent">>}

\* the polling toggle that lets a record into the Receiver
ClassOf(event) ==
    CASE event[1] = "KeyEvent" -> "key"
      [] event[1] = "MouseButtonEvent" -> "mouse_button"
      [] event[1] = "CursorPosEvent" -> "cursor_pos"
      [] event[1] = "ScrollEvent" -> "scroll"
      [] event[1] = "CharEvent" -> "char"
      [] OTHER -> "other"

None == <<>>

Some(v) == <<v>>

VARIABLES
    native_layer,    \* whether glfw::init and create_window can succeed
    handle,          \* "none", "new", "from_pieces", or "panicked" (new() unwound)
    settings,        \* GameWindowSettings: [fullscreen, exit_on_esc]
    window_mode,     \* native window mode: "Windowed" or "FullScreen"
    polling,         \* event classes the window polls
    cursor_mode,     \* "CursorNormal" or "CursorDisabled"
    should_close,    \* the window's should-close flag
    native,          \* native input queued and not yet pumped
    events,          \* the Receiver<(f64, glfw::WindowEvent)>
    event_queue,     \* RingBuf<input::InputEvent>
    last_mouse_pos,  \* Option<(f64, f64)>
    call,            \* history: the last poll_event call, its pre-state and result
    batch_rest,      \* history: the events the last pump appended that no
                     \* poll_event call has returned yet, in append order
    cursor_hist,     \* history: the last CursorPosEvent translated since
                     \* construction or capture_cursor(false), else None
    arrivals         \* history: the raw records that have arrived, counted
                     \* where the user produces finitely many of them

vars == <<native_layer, handle, settings, window_mode, polling, cursor_mode, should_close,
          native, events, event_queue, last_mouse_pos, call, batch_rest,
          cursor_hist, arrivals>>

(* ---- collections and conversions ---- *)
\* mutant of push: the event goes to the front
push_front(q, e) == <<e>> \o q

\* RingBuf::push appends at the back
push(q, e) == Append(q, e)

\* mutant of pop_front: the front is returned and stays in the buffer
pop_front_keeps(q) == [ret |-> Some(q[1]), queue |-> q]

\* mutant of pop_front: the back element is taken
pop_back(q) ==
    IF Len(q) = 0 THEN [ret |-> None, queue |-> q]
    ELSE [ret |-> Some(q[Len(q)]), queue |-> SubSeq(q, 1, Len(q) - 1)]

\* Deque::pop_front: the front element, if any, and the rest
pop_front(q) ==
    IF Len(q) = 0 THEN [ret |-> None, queue |-> q]
    ELSE [ret |-> Some(Head(q)), queue |-> Tail(q)]

\* mutant of to_string: the character is lost
to_string_empty(ch) == <<>>

\* char::to_string: the one-character string
to_string(ch) == <<ch>>

RECURSIVE SelectPolled(_, _)
\* glfw.poll_events(): the window's callbacks send the records of the polled
\* classes to the Receiver, in order
SelectPolled(q, classes) ==
    IF q = <<>> THEN <<>>
    ELSE IF ClassOf(Head(q)) \in classes
         THEN <<Head(q)>> \o SelectPolled(Tail(q), classes)
         ELSE SelectPolled(Tail(q), classes)

(* ---- flush_messages ---- *)
\* mutant of EscapeGate: the guard on exit_on_esc is missing
EscapeGateUnguarded(event, exit_on_esc) ==
    /\ event[1] = "KeyEvent"
    /\ event[2] = "KeyEscape"
    /\ event[3] = "Press"

\* pattern and guard of the first arm
EscapeGate(event, exit_on_esc) ==
    /\ event[1] = "KeyEvent"
    /\ event[2] = "KeyEscape"
    /\ event[3] = "Press"
    /\ exit_on_esc

\* mutant of KeyPress: the action is not matched, so Repeat is a press too
KeyPressOrRepeat(event) == event[1] = "KeyEvent" /\ event[3] # "Release"

\* pattern glfw::KeyEvent(key, _, glfw::Press, _)
KeyPress(event) == event[1] = "KeyEvent" /\ event[3] = "Press"

\* pattern glfw::KeyEvent(key, _, glfw::Release, _)
KeyRelease(event) == event[1] = "KeyEvent" /\ event[3] = "Release"

\* mutant of MouseRelative: the difference is taken the other way round
MouseRelativeReversed(x, y, lx, ly) == <<"Move", "MouseRelative", lx - x, ly - y>>

\* input::Move(input::MouseRelative(x - lx, y - ly))
MouseRelative(x, y, lx, ly) == <<"Move", "MouseRelative", x - lx, y - ly>>

\* mutant of CursorPosArm: the position is stored only in the Some arm
CursorPosArmStoresInSome(w, x, y) ==
    LET q1 == push(w.event_queue, <<"Move", "MouseCursor", x, y>>)
    IN IF w.last_mouse_pos # None
       THEN [w EXCEPT !.event_queue =
                        push(q1, MouseRelative(x, y, w.last_mouse_pos[1],
                                               w.last_mouse_pos[2])),
                      !.last_mouse_pos = <<x, y>>]
       ELSE [w EXCEPT !.event_queue = q1]

\* the CursorPosEvent arm.  w = [event_queue, last_mouse_pos, should_close]
CursorPosArm(w, x, y) ==
    LET q1 == push(w.event_queue, <<"Move", "MouseCursor", x, y>>)
        q2 == IF w.last_mouse_pos # None
              THEN push(q1, MouseRelative(x, y, w.last_mouse_pos[1],
                                          w.last_mouse_pos[2]))
              ELSE q1
    IN [w EXCEPT !.event_queue = q2, !.last_mouse_pos = <<x, y>>]

\* one iteration of the for loop: the match on `event`, arms in source order
ProcessEvent(w, event, exit_on_esc) ==
    IF EscapeGate(event, exit_on_esc)
    THEN [w EXCEPT !.should_close = TRUE]
    ELSE IF event[1] = "CharEvent"
    THEN [w EXCEPT !.event_queue = push(@, <<"Text", to_string(event[2])>>)]
    ELSE IF KeyPress(event)
    THEN [w EXCEPT !.event_queue =
            push(@, <<"Press", "Keyboard", glfw_map_key(event[2])>>)]
    ELSE IF KeyRelease(event)
    THEN [w EXCEPT !.event_queue =
            push(@, <<"Release", "Keyboard", glfw_map_key(event[2])>>)]
    ELSE IF event[1] = "MouseButtonEvent" /\ event[3] = "Press"
    THEN [w EXCEPT !.event_queue =
            push(@, <<"Press", "Mouse", glfw_map_mouse(event[2])>>)]
    ELSE IF event[1] = "MouseButtonEvent" /\ event[3] = "Release"
    THEN [w EXCEPT !.event_queue =
            push(@, <<"Release", "Mouse", glfw_map_mouse(event[2])>>)]
    ELSE IF event[1] = "CursorPosEvent"
    THEN CursorPosArm(w, event[2], event[3])
    ELSE IF event[1] = "ScrollEvent"
    THEN [w EXCEPT !.event_queue =
            push(@, <<"Move", "MouseScroll", event[2], event[3]>>)]
    ELSE w

RECURSIVE FlushLoopSkipsAfterClose(_, _, _)
\* mutant of FlushLoop: once the window is closing the records are skipped
FlushLoopSkipsAfterClose(w, msgs, exit_on_esc) ==
    IF msgs = <<>> THEN <<w>>
    ELSE <<w>> \o FlushLoopSkipsAfterClose(
                     IF w.should_close THEN w
                     ELSE ProcessEvent(w, Head(msgs), exit_on_esc),
                     Tail(msgs), exit_on_esc)

RECURSIVE FlushLoop(_, _, _)
\* the for loop over glfw::flush_messages(&self.events): the translator
\* state before the first record and after each record
FlushLoop(w, msgs, exit_on_esc) ==
    IF msgs = <<>> THEN <<w>>
    ELSE <<w>> \o FlushLoop(ProcessEvent(w, Head(msgs), exit_on_esc),
                            Tail(msgs), exit_on_esc)

\* mutant of flush_messages: the early return is missing
flush_messages_unguarded(w, nat, chan, classes, exit_on_esc) ==
    LET received == chan \o SelectPolled(nat, classes)
        steps == FlushLoop(w, received, exit_on_esc)
    IN [w |-> steps[Len(steps)], native |-> <<>>, events |-> <<>>,
        pumps |-> 1, batch |-> received, steps |-> steps]

\* mutant of flush_messages: a pump that receives nothing forgets the baseline
flush_messages_idle_reset(w, nat, chan, classes, exit_on_esc) ==
    IF Len(w.event_queue) # 0
    THEN [w |-> w, native |-> nat, events |-> chan, pumps |-> 0,
          batch |-> <<>>, steps |-> <<w>>]
    ELSE LET received == chan \o SelectPolled(nat, classes)
             w0 == IF received = <<>> THEN [w EXCEPT !.last_mouse_pos = None]
                   ELSE w
             steps == FlushLoop(w0, received, exit_on_esc)
         IN [w |-> steps[Len(steps)], native |-> <<>>, events |-> <<>>,
             pumps |-> 1, batch |-> received, steps |-> steps]

\* mutant of flush_messages: the early return discards what waits natively
flush_messages_discards(w, nat, chan, classes, exit_on_esc) ==
    IF Len(w.event_queue) # 0
    THEN [w |-> w, native |-> <<>>, events |-> <<>>, pumps |-> 0,
          batch |-> <<>>, steps |-> <<w>>]
    ELSE LET received == chan \o SelectPolled(nat, classes)
             steps == FlushLoop(w, received, exit_on_esc)
         IN [w |-> steps[Len(steps)], native |-> <<>>, events |-> <<>>,
             pumps |-> 1, batch |-> received, steps |-> steps]

\* flush_messages: returns at once if events are buffered; otherwise pumps
\* the native source once, drains the Receiver and translates every record.
\* pumps counts the calls of glfw.poll_events(), batch is what was drained
flush_messages(w, nat, chan, classes, exit_on_esc) ==
    IF Len(w.event_queue) # 0
    THEN [w |-> w, native |-> nat, events |-> chan, pumps |-> 0,
          batch |-> <<>>, steps |-> <<w>>]
    ELSE LET received == chan \o SelectPolled(nat, classes)
             steps == FlushLoop(w, received, exit_on_esc)
         IN [w |-> steps[Len(steps)], native |-> <<>>, events |-> <<>>,
             pumps |-> 1, batch |-> received, steps |-> steps]

(* ---- history bookkeeping ---- *)
NoCall == [op |-> "none", pumps |-> 0, queued |-> 0, batch |-> <<>>,
           steps |-> <<>>, pre_queue |-> <<>>, pre_last |-> None,
           pre_close |-> FALSE, pre_hist |-> None, pre_rest |-> <<>>,
           ret |-> None]

RECURSIVE LastCursor(_, _)
\* position of the last CursorPosEvent among recs, else dflt
LastCursor(recs, dflt) ==
    IF recs = <<>> THEN dflt
    ELSE LET r == recs[Len(recs)]
         IN IF r[1] = "CursorPosEvent" THEN <<r[2], r[3]>>
            ELSE LastCursor(SubSeq(recs, 1, Len(recs) - 1), dflt)

(* ---- initial state: nothing constructed yet ---- *)
Init ==
    /\ native_layer \in NativeLayerStates
    /\ handle = "none"
    /\ settings = [fullscreen |-> FALSE, exit_on_esc |-> FALSE]
    /\ window_mode = "Windowed"
    /\ polling = {}
    /\ cursor_mode = "CursorNormal"
    /\ should_close = FALSE
    /\ native = <<>>
    /\ events = <<>>
    /\ event_queue = <<>>
    /\ last_mouse_pos = None
    /\ call = NoCall
    /\ batch_rest = <<>>
    /\ cursor_hist = None
    /\ arrivals = 0

Live == handle \in {"new", "from_pieces"}

(* ---- constructors ---- *)
\* mutant of New: set_char_polling(true) is missing
NewWithoutCharPolling ==
    /\ native_layer = "ok"
    /\ handle = "none"
    /\ \E fs \in FullscreenFlags, esc \in BOOLEAN :
         settings' = [fullscreen |-> fs, exit_on_esc |-> esc]
    /\ handle' = "new"
    /\ window_mode' = "Windowed"
    /\ polling' = {"key", "mouse_button", "cursor_pos", "scroll"}
    /\ event_queue' = <<>>
    /\ last_mouse_pos' = None
    /\ UNCHANGED <<native_layer, arrivals, cursor_mode, should_close, native, events, call,
                   batch_rest, cursor_hist>>

\* GameWindowGLFW::new, the native layer succeeding
New ==
    /\ native_layer = "ok"
    /\ handle = "none"
    /\ \E fs \in FullscreenFlags, esc \in BOOLEAN :
         settings' = [fullscreen |-> fs, exit_on_esc |-> esc]
    /\ handle' = "new"
    /\ window_mode' = "Windowed"
    /\ polling' = {"key", "mouse_button", "cursor_pos", "scroll", "char"}
    /\ event_queue' = <<>>
    /\ last_mouse_pos' = None
    /\ UNCHANGED <<native_layer, arrivals, cursor_mode, should_close, native, events, call,
                   batch_rest, cursor_hist>>

\* mutant of NewPanics: the failure is ignored and a handle is built
NewIgnoresFailure ==
    /\ native_layer # "ok"
    /\ handle = "none"
    /\ handle' = "new"
    /\ polling' = {"key", "mouse_button", "cursor_pos", "scroll", "char"}
    /\ UNCHANGED <<native_layer, arrivals, settings, window_mode, cursor_mode, should_close,
                   native, events, event_queue, last_mouse_pos, call,
                   batch_rest, cursor_hist>>

\* GameWindowGLFW::new when glfw::init or create_window fails: unwrap() /
\* expect() panic, the call unwinds into the caller and returns no value
NewPanics ==
    /\ native_layer # "ok"
    /\ handle = "none"
    /\ handle' = "panicked"
    /\ UNCHANGED <<native_layer, arrivals, settings, window_mode, polling, cursor_mode, should_close,
                   native, events, event_queue, last_mouse_pos, call,
                   batch_rest, cursor_hist>>

\* GameWindowGLFW::from_pieces on a window the caller created; `prior` is
\* the polling the caller had switched on, `mode` the window's mode
FromPieces ==
    /\ native_layer = "ok"
    /\ handle = "none"
    /\ \E prior \in PriorPolling, mode \in WindowModes, esc \in BOOLEAN :
         /\ polling' = prior \cup {"key", "mouse_button", "cursor_pos", "scroll"}
         /\ window_mode' = mode
         /\ settings' = [fullscreen |-> (mode = "Windowed"), exit_on_esc |-> esc]
    /\ handle' = "from_pieces"
    /\ event_queue' = <<>>
    /\ last_mouse_pos' = None
    /\ UNCHANGED <<native_layer, arrivals, cursor_mode, should_close, native, events, call,
                   batch_rest, cursor_hist>>

(* ---- environment ---- *)
\* the user produces one native input record; it waits for the next pump
Arrive ==
    /\ Live
    /\ Len(native) + Len(event_queue) < MaxInFlight
    /\ \E r \in RawRecords : native' = Append(native, r)
    /\ call' = NoCall
    /\ UNCHANGED <<native_layer, handle, settings, window_mode, polling, cursor_mode,
                   should_close, events, event_queue, last_mouse_pos,
                   batch_rest, cursor_hist>>

\* input that may go on for ever
NativeInput == Arrive /\ UNCHANGED arrivals

\* input of a user who produces MaxArrivals records at most
NativeInputFinite ==
    /\ arrivals < MaxArrivals
    /\ Arrive
    /\ arrivals' = arrivals + 1

(* ---- GameWindow operations ---- *)
PollEvent ==
    /\ Live
    /\ \E f \in {flush_messages([event_queue |-> event_queue,
                                 last_mouse_pos |-> last_mouse_pos,
                                 should_close |-> should_close],
                                native, events, polling, settings.exit_on_esc)} :
       \E p \in {IF Len(f.w.event_queue) # 0 THEN pop_front(f.w.event_queue)
                ELSE [ret |-> None, queue |-> f.w.event_queue]} :
          /\ native' = f.native
          /\ events' = f.events
          /\ event_queue' = p.queue
          /\ last_mouse_pos' = f.w.last_mouse_pos
          /\ should_close' = f.w.should_close
          /\ call' = [op |-> "poll_event", pumps |-> f.pumps,
                      queued |-> Len(native) + Len(events),
                      batch |-> f.batch, steps |-> f.steps,
                      pre_queue |-> event_queue, pre_last |-> last_mouse_pos,
                      pre_close |-> should_close, pre_hist |-> cursor_hist,
                      pre_rest |-> batch_rest, ret |-> p.ret]
          /\ batch_rest' =
                LET left == IF f.pumps > 0
                            THEN SubSeq(f.w.event_queue, Len(event_queue) + 1,
                                        Len(f.w.event_queue))
                            ELSE batch_rest
                IN IF left = <<>> THEN <<>> ELSE Tail(left)
          /\ cursor_hist' = LastCursor(f.batch, cursor_hist)
    /\ UNCHANGED <<native_layer, arrivals, handle, settings, window_mode, polling, cursor_mode>>

\* mutant of CaptureCursor: the else arm does not reset last_mouse_pos
CaptureCursorKeepsBaseline ==
    /\ Live
    /\ \E enabled \in BOOLEAN :
         IF enabled
         THEN /\ cursor_mode' = "CursorDisabled"
              /\ UNCHANGED <<last_mouse_pos, cursor_hist>>
         ELSE /\ cursor_mode' = "CursorNormal"
              /\ UNCHANGED last_mouse_pos
              /\ cursor_hist' = None
    /\ call' = NoCall
    /\ UNCHANGED <<native_layer, arrivals, handle, settings, window_mode, polling, should_close,
                   native, events, event_queue, batch_rest>>

\* mutant of CaptureCursor: the else arm also discards the buffered events
CaptureCursorFlushesPending ==
    /\ Live
    /\ \E enabled \in BOOLEAN :
         IF enabled
         THEN /\ cursor_mode' = "CursorDisabled"
              /\ UNCHANGED <<last_mouse_pos, cursor_hist, event_queue>>
         ELSE /\ cursor_mode' = "CursorNormal"
              /\ last_mouse_pos' = None
              /\ cursor_hist' = None
              /\ event_queue' = <<>>
    /\ call' = NoCall
    /\ UNCHANGED <<native_layer, arrivals, handle, settings, window_mode, polling, should_close,
                   native, events, batch_rest>>

CaptureCursor ==
    /\ Live
    /\ \E enabled \in BOOLEAN :
         IF enabled
         THEN /\ cursor_mode' = "CursorDisabled"
              /\ UNCHANGED <<last_mouse_pos, cursor_hist>>
         ELSE /\ cursor_mode' = "CursorNormal"
              /\ last_mouse_pos' = None
              /\ cursor_hist' = None
    /\ call' = NoCall
    /\ UNCHANGED <<native_layer, arrivals, handle, settings, window_mode, polling, should_close,
                   native, events, event_queue, batch_rest>>

\* mutant of Close: the flag is toggled
CloseToggles ==
    /\ Live
    /\ should_close' = ~should_close
    /\ call' = NoCall
    /\ UNCHANGED <<native_layer, arrivals, handle, settings, window_mode, polling, cursor_mode,
                   native, events, event_queue, last_mouse_pos, batch_rest,
                   cursor_hist>>

Close ==
    /\ Live
    /\ should_close' = TRUE
    /\ call' = NoCall
    /\ UNCHANGED <<native_layer, arrivals, handle, settings, window_mode, polling, cursor_mode,
                   native, events, event_queue, last_mouse_pos, batch_rest,
                   cursor_hist>>

SwapBuffers ==
    /\ Live
    /\ call' = NoCall
    /\ UNCHANGED <<native_layer, arrivals, handle, settings, window_mode, polling, cursor_mode,
                   should_close, native, events, event_queue, last_mouse_pos,
                   batch_rest, cursor_hist>>

\* the operations without capture_cursor
NextNoCapture ==
    \/ New
    \/ NewPanics
    \/ FromPieces
    \/ NativeInput
    \/ PollEvent
    \/ Close
    \/ SwapBuffers

SpecNoCapture == Init /\ [][NextNoCapture]_vars

\* a window made by new(), a user who produces finitely many records and a
\* caller that keeps calling poll_event: the main loop calls it on every
\* iteration
NextLive ==
    \/ New
    \/ NewPanics
    \/ NativeInputFinite
    \/ PollEvent

SpecLive == Init /\ [][NextLive]_vars /\ WF_vars(PollEvent)

\* glfw_map_key applied to one native key code
MapKey ==
    /\ \E k \in NativeKeys :
         call' = [NoCall EXCEPT !.op = "glfw_map_key", !.batch = <<k>>,
                               !.ret = Some(glfw_map_key(k))]
    /\ UNCHANGED <<native_layer, arrivals, handle, settings, window_mode, polling,
                   cursor_mode, should_close, native, events, event_queue,
                   last_mouse_pos, batch_rest, cursor_hist>>

\* glfw_map_mouse applied to one native mouse-button code
MapMouse ==
    /\ \E b \in NativeMouseButtons :
         call' = [NoCall EXCEPT !.op = "glfw_map_mouse", !.batch = <<b>>,
                               !.ret = Some(glfw_map_mouse(b))]
    /\ UNCHANGED <<native_layer, arrivals, handle, settings, window_mode, polling,
                   cursor_mode, should_close, native, events, event_queue,
                   last_mouse_pos, batch_rest, cursor_hist>>

NextMap ==
    \/ MapKey
    \/ MapMouse

SpecMap == Init /\ [][NextMap]_vars

Next ==
    \/ New
    \/ NewPanics
    \/ FromPieces
    \/ NativeInput
    \/ PollEvent
    \/ CaptureCursor
    \/ Close
    \/ SwapBuffers

Spec == Init /\ [][Next]_vars

(***************************************************************************)
(* Properties.  call describes the last poll_event call while no other     *)
(* step has followed it: call.steps[i] is the translator state before      *)
(* record i of the pumped batch, call.steps[i+1] the state after it.       *)
(***************************************************************************)
PolledCall == call.op = "poll_event"

Pumped == PolledCall /\ call.pumps > 0

Before(i) == call.steps[i]

After(i) == call.steps[i + 1]

IsPrefix(p, q) == Len(p) <= Len(q) /\ SubSeq(q, 1, Len(p)) = p

\* the events record i of the batch appended
Added(i) ==
    SubSeq(After(i).event_queue, Len(Before(i).event_queue) + 1,
           Len(After(i).event_queue))

\* record i appended exactly the events out, behind what was buffered
Appends(i, out) == After(i).event_queue = Before(i).event_queue \o out

\* the relative-motion baseline record i of the batch meets: the position of
\* the last CursorPosEvent translated before it since construction or
\* capture_cursor(false)
Baseline(i) == LastCursor(SubSeq(call.batch, 1, i - 1), call.pre_hist)

IsCursor(r) == r[1] = "CursorPosEvent"

\* the raw variant an input event is a translation of
VariantOf(e) ==
    CASE e[1] = "Text" -> "CharEvent"
      [] e[1] \in {"Press", "Release"} /\ e[2] = "Keyboard" -> "KeyEvent"
      [] e[1] \in {"Press", "Release"} /\ e[2] = "Mouse" -> "MouseButtonEvent"
      [] e[1] = "Move" /\ e[2] = "MouseScroll" -> "ScrollEvent"
      [] e[1] = "Move" /\ e[2] \in {"MouseCursor", "MouseRelative"} -> "CursorPosEvent"
      [] OTHER -> "none"

RECURSIVE AddedUpTo(_)
\* concatenation of what records 1..n appended, in record order
AddedUpTo(n) == IF n = 0 THEN <<>> ELSE AddedUpTo(n - 1) \o Added(n)

\* C1: FIFO draining.  The events a pump appends are returned one per
\* poll_event call in append order, the first by the call that pumped; no
\* call pumps while one of them is still unreturned, and the call after the
\* last of them pumps again.
C1_FifoDraining ==
    PolledCall =>
        LET appended == SubSeq(call.steps[Len(call.steps)].event_queue,
                               Len(call.pre_queue) + 1,
                               Len(call.steps[Len(call.steps)].event_queue))
            due == IF call.pumps > 0 THEN appended ELSE call.pre_rest
        IN /\ call.ret = (IF due = <<>> THEN None ELSE Some(Head(due)))
           /\ batch_rest = (IF due = <<>> THEN <<>> ELSE Tail(due))
           /\ (call.pumps = 0) <=> (call.pre_rest # <<>>)
           /\ call.pumps <= 1

\* a pump appended at least two events and a later call, which did not
\* pump, has just returned the last of them
C1_Witness ==
    /\ PolledCall
    /\ call.pumps = 0
    /\ Len(call.pre_rest) = 1
    /\ call.ret = Some(call.pre_rest[1])
    /\ event_queue = <<>>

\* C2: a poll_event call invokes the native pump at most once, and exactly
\* when the pending buffer is empty at its start; with events pending it
\* takes nothing from the native source or the Receiver.
C2_PumpOnlyWhenEmpty ==
    PolledCall =>
        /\ call.pumps <= 1
        /\ (call.pumps = 1) <=> (call.pre_queue = <<>>)
        /\ call.pre_queue # <<>> =>
              /\ call.batch = <<>>
              /\ Len(native) + Len(events) = call.queued

\* a call served a buffered event while native records were waiting
C2_Witness ==
    /\ PolledCall
    /\ call.pre_queue # <<>>
    /\ call.queued > 0
    /\ call.pumps = 0
    /\ native # <<>>

\* C3: order preservation.  Each record of a pumped batch appends its own
\* translation behind everything appended before it, so pending receives
\* the concatenation of the translations in record order; a CursorPosEvent
\* appends MouseCursor first and, if anything more, MouseRelative right
\* after it.
C3_OrderPreserved ==
    Pumped =>
        /\ Len(call.steps) = Len(call.batch) + 1
        /\ \A i \in 1..Len(call.batch) :
              /\ IsPrefix(Before(i).event_queue, After(i).event_queue)
              /\ \A j \in 1..Len(Added(i)) :
                    VariantOf(Added(i)[j]) = call.batch[i][1]
              /\ IsCursor(call.batch[i]) =>
                    /\ Len(Added(i)) \in {1, 2}
                    /\ Added(i)[1][2] = "MouseCursor"
                    /\ Len(Added(i)) = 2 => Added(i)[2][2] = "MouseRelative"
        /\ call.steps[Len(call.steps)].event_queue
              = call.pre_queue \o AddedUpTo(Len(call.batch))

\* a batch in which a record that appended an event is followed by a
\* CursorPosEvent that appended both of its events
C3_Witness ==
    /\ Pumped
    /\ \E i \in 2..Len(call.batch) :
          /\ Added(i - 1) # <<>>
          /\ ~IsCursor(call.batch[i - 1])
          /\ IsCursor(call.batch[i])
          /\ Len(Added(i)) = 2

\* C4: relative-motion derivation.  A CursorPosEvent(x, y) translated when
\* the previous CursorPosEvent translated since construction or
\* capture_cursor(false) was (lx, ly) appends Move(MouseCursor(x, y)) and
\* then Move(MouseRelative(x - lx, y - ly)).
C4_RelativeMotion ==
    Pumped =>
        \A i \in 1..Len(call.batch) :
            (IsCursor(call.batch[i]) /\ Baseline(i) # None) =>
                LET x == call.batch[i][2]
                    y == call.batch[i][3]
                    lx == Baseline(i)[1]
                    ly == Baseline(i)[2]
                IN Appends(i, << <<"Move", "MouseCursor", x, y>>,
                                 <<"Move", "MouseRelative", x - lx, y - ly>> >>)

\* CursorPosEvent(10, 10) was translated by an earlier pump; this pump
\* translates a non-cursor record and then CursorPosEvent(13, 7)
C4_Witness ==
    /\ Pumped
    /\ call.pre_hist = <<10, 10>>
    /\ Len(call.batch) = 2
    /\ ~IsCursor(call.batch[1])
    /\ call.batch[2] = <<"CursorPosEvent", 13, 7>>
    /\ Added(2) = << <<"Move", "MouseCursor", 13, 7>>,
                     <<"Move", "MouseRelative", 3, -3>> >>

\* C5: first-motion suppression.  A CursorPosEvent(x, y) translated when no
\* CursorPosEvent has been translated since construction or since the last
\* capture_cursor(false) appends Move(MouseCursor(x, y)) and nothing else.
C5_FirstMotion ==
    Pumped =>
        \A i \in 1..Len(call.batch) :
            (IsCursor(call.batch[i]) /\ Baseline(i) = None) =>
                Appends(i, << <<"Move", "MouseCursor", call.batch[i][2],
                                call.batch[i][3]>> >>)

\* the first CursorPosEvent of a handle is translated, after other records
C5_Witness ==
    /\ Pumped
    /\ call.pre_hist = None
    /\ \E i \in 2..Len(call.batch) :
          /\ IsCursor(call.batch[i])
          /\ Baseline(i) = None
          /\ Len(Added(i)) = 1

\* C6: escape-to-quit gating.  KeyEvent(Escape, Press) with exit_on_esc
\* enabled sets should_close and appends nothing; with exit_on_esc disabled
\* it appends Press(Keyboard(Escape)) and leaves should_close as it was.
C6_EscapeGating ==
    Pumped =>
        /\ \A i \in 1..Len(call.batch) :
              call.batch[i] = <<"KeyEvent", "KeyEscape", "Press">> =>
                  IF settings.exit_on_esc
                  THEN /\ After(i).should_close = TRUE
                       /\ Appends(i, <<>>)
                  ELSE /\ After(i).should_close = Before(i).should_close
                       /\ Appends(i, << <<"Press", "Keyboard", "Escape">> >>)
        /\ should_close = call.steps[Len(call.steps)].should_close

\* an Escape press closed a window that was not closing
C6_Witness ==
    /\ Pumped
    /\ settings.exit_on_esc
    /\ ~call.pre_close
    /\ should_close
    /\ \E i \in 1..Len(call.batch) :
          call.batch[i] = <<"KeyEvent", "KeyEscape", "Press">>

\* C7: repeat suppression.  A KeyEvent with action Repeat, whatever the key
\* and the exit_on_esc setting, appends no event (and changes nothing else).
C7_RepeatSuppressed ==
    Pumped =>
        \A i \in 1..Len(call.batch) :
            (call.batch[i][1] = "KeyEvent" /\ call.batch[i][3] = "Repeat") =>
                After(i) = Before(i)

\* an Escape repeat was translated with exit_on_esc on, next to a record
\* that did append an event
C7_Witness ==
    /\ Pumped
    /\ settings.exit_on_esc
    /\ \E i \in 1..Len(call.batch) :
          call.batch[i] = <<"KeyEvent", "KeyEscape", "Repeat">>
    /\ call.ret # None

\* C8: the per-record translation table.  CharEvent(ch) appends Text(ch);
\* a key press or release that the escape gate does not take appends
\* Press / Release(Keyboard(map_key(key))); a mouse button press or release
\* appends Press / Release(Mouse(map_button(b))); ScrollEvent(dx, dy)
\* appends Move(MouseScroll(dx, dy)); each exactly that and one event.  A
\* record of any other variant changes nothing.
C8_TranslationTable ==
    Pumped =>
        \A i \in 1..Len(call.batch) :
            LET r == call.batch[i]
                gated == r = <<"KeyEvent", "KeyEscape", "Press">>
                         /\ settings.exit_on_esc
            IN CASE r[1] = "CharEvent" ->
                      Appends(i, << <<"Text", <<r[2]>> >> >>)
                 [] r[1] = "KeyEvent" /\ r[3] \in {"Press", "Release"} /\ ~gated ->
                      Appends(i, << <<r[3], "Keyboard", glfw_map_key(r[2])>> >>)
                 [] r[1] = "MouseButtonEvent" /\ r[3] \in {"Press", "Release"} ->
                      Appends(i, << <<r[3], "Mouse", glfw_map_mouse(r[2])>> >>)
                 [] r[1] = "ScrollEvent" ->
                      Appends(i, << <<"Move", "MouseScroll", r[2], r[3]>> >>)
                 [] r[1] \notin {"CharEvent", "KeyEvent", "MouseButtonEvent",
                                 "ScrollEvent", "CursorPosEvent"} ->
                      After(i) = Before(i)
                 [] OTHER -> TRUE

\* a batch with a record of an unhandled variant and a CharEvent
C8_Witness ==
    /\ Pumped
    /\ \E i, j \in 1..Len(call.batch) :
          /\ call.batch[i] = <<"FocusEvent">>
          /\ call.batch[j][1] = "CharEvent"
          /\ Added(j) = << <<"Text", <<97>> >> >>

\* C9: a poll_event call with nothing pending and nothing queued natively
\* returns None after one pump and leaves pending empty and
\* last_mouse_pos and should_close as they were.
C9_EmptyPoll ==
    (PolledCall /\ call.pre_queue = <<>> /\ call.queued = 0) =>
        /\ call.ret = None
        /\ call.pumps = 1
        /\ event_queue = <<>>
        /\ last_mouse_pos = call.pre_last
        /\ should_close = call.pre_close

\* such a call on a handle that has a baseline
C9_Witness ==
    /\ PolledCall
    /\ call.pre_queue = <<>>
    /\ call.queued = 0
    /\ call.ret = None
    /\ last_mouse_pos # None

\* C10: last_mouse_pos is changed only by translating a CursorPosEvent,
\* which leaves it Some(x, y) of that record, and by capture_cursor(false),
\* which leaves it None: in every state it is the position of the last
\* CursorPosEvent translated since construction or capture_cursor(false),
\* and None if there is none (cursor_hist, which no other step changes).
C10_LastMousePosFrame == last_mouse_pos = cursor_hist

\* capture_cursor(true) has been called on a handle that keeps its baseline
C10_Witness ==
    /\ cursor_mode = "CursorDisabled"
    /\ last_mouse_pos # None
    /\ call = NoCall
    /\ event_queue # <<>>

\* C11: close() is idempotent and should_close() is monotone: every close()
\* leaves should_close true, and no step makes a true should_close false.
C11_CloseMonotone ==
    [][/\ should_close => should_close'
       /\ Close => should_close']_vars

\* a poll_event call pumped and translated records on a window that was
\* already closing, and the window is still closing
C11_Witness ==
    /\ Pumped
    /\ call.pre_close
    /\ Len(call.batch) > 0
    /\ should_close

\* C12: a handle built by new() polls key, mouse-button, cursor-position,
\* scroll and character events.
C12_NewPollsFiveClasses ==
    handle = "new" =>
        {"key", "mouse_button", "cursor_pos", "scroll", "char"} \subseteq polling

\* a handle built by new() has returned a Text event
C12_Witness ==
    /\ handle = "new"
    /\ PolledCall
    /\ call.ret = Some(<<"Text", <<97>> >>)

\* C13: from_pieces infers settings.fullscreen from the live window: true
\* exactly when the window is in fullscreen mode.
C13_FullscreenInferred ==
    handle = "from_pieces" =>
        (settings.fullscreen <=> window_mode = "FullScreen")

\* C17: a handle built by from_pieces has character polling enabled, as one
\* built by new() has.
C17_FromPiecesPollsChars ==
    handle = "from_pieces" => "char" \in polling

\* C19: capture_cursor and close leave the pending buffer as it is: in
\* every state pending holds exactly the events the last pump appended that
\* no poll_event call has returned yet, in append order (batch_rest, which
\* only poll_event changes).
C19_PendingKept == event_queue = batch_rest

\* capture_cursor(false) was called while a Move(MouseRelative) was buffered
C19_Witness ==
    /\ call = NoCall
    /\ last_mouse_pos = None
    /\ \E j \in 1..Len(event_queue) : event_queue[j][2] = "MouseRelative"

\* the two mappings tabulated over every native code
MappedKey == [k \in NativeKeys |-> glfw_map_key(k)]

MappedButton == [b \in NativeMouseButtons |-> glfw_map_mouse(b)]

(* ---- the translation table of the specification, section 4.2 ---- *)
\* the events one raw record yields, given the relative-motion baseline
RefTranslate(r, base, esc) ==
    CASE r = <<"KeyEvent", "KeyEscape", "Press">> /\ esc -> <<>>
      [] r[1] = "CharEvent" -> << <<"Text", <<r[2]>> >> >>
      [] r[1] = "KeyEvent" /\ r[3] \in {"Press", "Release"} ->
            << <<r[3], "Keyboard", MappedKey[r[2]]>> >>
      [] r[1] = "MouseButtonEvent" /\ r[3] \in {"Press", "Release"} ->
            << <<r[3], "Mouse", MappedButton[r[2]]>> >>
      [] r[1] = "CursorPosEvent" ->
            IF base = None
            THEN << <<"Move", "MouseCursor", r[2], r[3]>> >>
            ELSE << <<"Move", "MouseCursor", r[2], r[3]>>,
                    <<"Move", "MouseRelative", r[2] - base[1], r[3] - base[2]>> >>
      [] r[1] = "ScrollEvent" -> << <<"Move", "MouseScroll", r[2], r[3]>> >>
      [] OTHER -> <<>>

\* C20: with exit_on_esc enabled only the press of Escape is withheld: an
\* Escape release appends Release(Keyboard(Escape)), every record
\* translated while should_close is already true appends what the table
\* gives for it, and the call returns the first event of the batch and
\* leaves the others buffered.
C20_OnlyEscapePressWithheld ==
    (Pumped /\ settings.exit_on_esc) =>
        /\ \A i \in 1..Len(call.batch) :
              /\ call.batch[i] = <<"KeyEvent", "KeyEscape", "Release">> =>
                    Appends(i, << <<"Release", "Keyboard", "Escape">> >>)
              /\ Before(i).should_close =>
                    Appends(i, RefTranslate(call.batch[i],
                                            Before(i).last_mouse_pos, TRUE))
        /\ LET final == call.steps[Len(call.steps)].event_queue
           IN final # <<>> =>
                 /\ call.ret = Some(Head(final))
                 /\ event_queue = Tail(final)

\* an Escape press closed the window and the record after it in the same
\* batch was translated and returned
C20_Witness ==
    /\ Pumped
    /\ settings.exit_on_esc
    /\ ~call.pre_close
    /\ Len(call.batch) = 2
    /\ call.batch[1] = <<"KeyEvent", "KeyEscape", "Press">>
    /\ call.batch[2] = <<"KeyEvent", "KeyEscape", "Release">>
    /\ call.ret = Some(<<"Release", "Keyboard", "Escape">>)
    /\ should_close

\* C14: when the native layer cannot initialise or cannot create the
\* window, new() fails into its caller (it panics) instead of returning a
\* handle, without trying again: no handle and no translator state exists
\* then or later.
C14_CreationFails ==
    native_layer # "ok" =>
        /\ handle \in {"none", "panicked"}
        /\ polling = {}
        /\ event_queue = <<>>
        /\ last_mouse_pos = None
        /\ native = <<>>
        /\ call = NoCall

\* new() was called where create_window fails
C14_Witness ==
    /\ native_layer = "create_window_fails"
    /\ handle = "panicked"

\* C15: glfw_map_key and glfw_map_mouse are total: every native key code
\* and every native mouse-button code is matched by exactly one arm and
\* yields the logical value that arm names; the keys without a portable
\* equivalent (grave accent, world keys) yield Unknown.
C15_MappingsTotal ==
    /\ call.op = "glfw_map_key" =>
          LET k == call.batch[1]
              arms == {i \in 1..Len(KeyTable) : KeyTable[i][1] = k}
          IN /\ Cardinality(arms) = 1
             /\ \A i \in arms : call.ret = Some(KeyTable[i][2])
             /\ call.ret # Some("")
             /\ k \in {"KeyGraveAccent", "KeyWorld1", "KeyWorld2"} =>
                   call.ret = Some("Unknown")
    /\ call.op = "glfw_map_mouse" =>
          LET b == call.batch[1]
              arms == {i \in 1..Len(MouseTable) : MouseTable[i][1] = b}
          IN /\ Cardinality(arms) = 1
             /\ \A i \in arms : call.ret = Some(MouseTable[i][2])
             /\ call.ret # Some("")

\* a world key has been mapped
C15_Witness ==
    /\ call.op = "glfw_map_key"
    /\ call.batch = <<"KeyWorld2">>
    /\ call.ret = Some("Unknown")

RECURSIVE RefTranslateAll(_, _, _)
\* the table applied to a sequence of raw records in order, the baseline
\* moving to each CursorPosEvent
RefTranslateAll(recs, base, esc) ==
    IF recs = <<>> THEN <<>>
    ELSE RefTranslate(Head(recs), base, esc)
            \o RefTranslateAll(Tail(recs),
                               IF IsCursor(Head(recs))
                               THEN <<Head(recs)[2], Head(recs)[3]>> ELSE base,
                               esc)

\* the raw records that have arrived and are not translated yet
Waiting == events \o SelectPolled(native, polling)

\* the translations, in arrival order, of all raw records that have
\* arrived, less the events poll_event has returned already
Owed ==
    event_queue \o RefTranslateAll(Waiting, last_mouse_pos, settings.exit_on_esc)

\* C16: end to end, nothing is lost, duplicated or reordered while
\* capture_cursor is not called.  A poll_event call returns the first owed
\* event and removes only it, or returns None if nothing is owed.  Between
\* calls the buffered events stay as they are, arriving records are added
\* after the waiting ones, and the baseline and exit_on_esc, on which the
\* translation of the waiting records depends, do not change.  So the events
\* returned so far are always a prefix of the translations of the records
\* in arrival order.
C16_EndToEnd ==
    [][IF call'.op = "poll_event"
       THEN LET before == Owed
            IN IF before = <<>>
               THEN call'.ret = None /\ Owed' = <<>>
               ELSE call'.ret = Some(Head(before)) /\ Owed' = Tail(before)
       ELSE /\ event_queue' = event_queue
            /\ IsPrefix(Waiting, Waiting')
            /\ Waiting' # <<>> =>
                  /\ last_mouse_pos' = last_mouse_pos
                  /\ settings'.exit_on_esc = settings.exit_on_esc
      ]_vars

\* a call returned the last buffered event while records that arrived in
\* the meantime wait for a later pump
C16_Witness ==
    /\ PolledCall
    /\ call.pumps = 0
    /\ call.ret # None
    /\ event_queue = <<>>
    /\ Len(Waiting) = 1
    /\ Len(Owed) = 2

\* C18: liveness of draining.  When finitely many raw records arrive and
\* the caller keeps calling poll_event, whatever is owed to the caller leads
\* to the call that returns the last owed event, and from some point on
\* nothing is owed and every call returns None.  Events leave what is owed
\* only by being returned, first owed first, so every event is returned on
\* the way.
C18_DrainingLive ==
    /\ (Owed # <<>>) ~> (PolledCall /\ call.ret # None /\ Owed = <<>>)
    /\ <>[](Owed = <<>> /\ (PolledCall => call.ret = None))

\* all the records the user produces have arrived, two events were owed,
\* and the call after the last of them was returned found nothing
C18_Witness ==
    /\ arrivals = MaxArrivals
    /\ PolledCall
    /\ call.pumps = 1
    /\ call.ret = None
    /\ Owed = <<>>
    /\ last_mouse_pos # None

====
